---- MODULE Spec2Model ----
(***************************************************************************)
(* BTC triple-signal strategies (HangerLIN/BTC-strategy).                  *)
(*                                                                         *)
(* The strategy object is the state; every callback the CTA framework      *)
(* invokes on it (on_tick, on_bar, on_trade, on_order) is one action.      *)
(* Prices, volumes and indicator values are integers; a percentage is a    *)
(* fraction num/den and every comparison is made on cross-multiplied       *)
(* integers, so the comparisons are the exact ones of the source (the      *)
(* source computes in binary floating point; rounding there is not         *)
(* modelled).  The indicator library (ArrayManager / talib) and the broker *)
(* are the environment: each bar carries the indicator values the library  *)
(* returns for it, and the broker may fill or confirm the cancellation of  *)
(* any order it holds, in any order.                                       *)
(***************************************************************************)
EXTENDS Integers, Sequences, FiniteSets, TLC

VARIABLES
    variant,              \* which strategy class is running: "1h" or "min"
    am_count,             \* ArrayManager: bars received, saturating at am_size
    pos,                  \* CtaTemplate.pos, in lots of fixed_size
    entry_price,
    intra_trade_high,
    intra_trade_low,
    trailing_stop_price,
    last_price,
    fast_ma0,
    slow_ma0,
    ma_trend,
    rsi_value,
    macd_value,
    k_value,
    d_value,
    last_k,
    last_d,
    stoch_cross_over,
    atr_value,
    adx_value,
    signal_count,
    last_tick,
    orders,               \* the strategy's active orders at the broker, oldest first
    ev,                   \* history: what the last on_bar or on_trade received and did
    mark,                 \* history: side and stop at the end of the last bar
    step_size,            \* BinanceLiveTrader: LOT_SIZE stepSize, in 1/10^qty_decimals
    tick_size,            \* BinanceLiveTrader: PRICE_FILTER tickSize, same unit
    call,                 \* history: the last BinanceLiveTrader call and its result
    min_qty,              \* BinanceLiveTrader: LOT_SIZE minQty, same unit
    position,             \* BinanceLiveTrader.position, same unit
    trader_entry_price,   \* BinanceLiveTrader.entry_price
    submitted,            \* calls of client.create_order made so far
    pc,                   \* vnpy_data_downloader: where main() stands
    db,                   \* rows of dbbardata for the symbol, per bar open time
    now_ts,               \* the clock, in units of 1/interval_ts of a bar
    found,                \* what check_existing_data returned to main()
    todo,                 \* the download_historical_data calls main() has yet to make
    current_start_ts,     \* download_historical_data: start of the next request
    end_ts,               \* download_historical_data: end of the requested range
    dl                    \* history: the last pass through the loop of this download

vars == <<variant, am_count, pos, entry_price, intra_trade_high, intra_trade_low,
          trailing_stop_price, last_price, fast_ma0, slow_ma0, ma_trend, rsi_value,
          macd_value, k_value, d_value, last_k, last_d, stoch_cross_over, atr_value,
          adx_value, signal_count, last_tick, orders, ev, mark,
          step_size, tick_size, call, min_qty, position, trader_entry_price,
          submitted, pc, db, now_ts, found, todo, current_start_ts, end_ts, dl>>

\* the state of BinanceLiveTrader
trader_vars == <<step_size, tick_size, call, min_qty, position,
                 trader_entry_price, submitted>>

\* the state of the downloader and of its database
downloader_vars == <<pc, db, now_ts, found, todo, current_start_ts, end_ts, dl>>

\* the state of the strategy object and of its broker
strategy_vars == <<variant, am_count, pos, entry_price, intra_trade_high,
                   intra_trade_low, trailing_stop_price, last_price, fast_ma0,
                   slow_ma0, ma_trend, rsi_value, macd_value, k_value, d_value,
                   last_k, last_d, stoch_cross_over, atr_value, adx_value,
                   signal_count, last_tick, orders, ev, mark>>

----------------------------------------------------------------------------
(* Bounds of the model *)

\* lots the broker lets the position reach on either side (a fill beyond waits)
MaxPos == 2

\* ArrayManager(200): the bars needed before am.inited, scaled down
am_size == 3

----------------------------------------------------------------------------
(* Strategy parameters (class attributes of BtcTripleSignalStrategy1h) *)

signal_num == 2
\* one lot is fixed_size = 0.01 BTC
fixed_size == 1
rsi_buy_level == 30
rsi_sell_level == 70
adx_threshold == 20
\* atr_multiplier = 2.5 = 5 / 2
atr_multiplier_num == 5
atr_multiplier_den == 2
\* volume_multiplier = 1.2 = 12 / 10
volume_multiplier_num == 12
volume_multiplier_den == 10
\* trailing_stop_activation_pct = 0.01 = 1 / 100
activation_pct_num == 1
activation_pct_den == 100
\* slippage_tolerance_pct = 0.001 = 1 / 1000; order prices are kept in 1/1000
slippage_pct_num == 1
slippage_pct_den == 1000

----------------------------------------------------------------------------
(* Helpers *)

Max(a, b) == IF a >= b THEN a ELSE b
Min(a, b) == IF a <= b THEN a ELSE b
Abs(a) == IF a >= 0 THEN a ELSE -a
Sign(a) == IF a > 0 THEN 1 ELSE IF a < 0 THEN -1 ELSE 0

NoTick == [has |-> FALSE, bid |-> 0, ask |-> 0]
NoBar == [close |-> 0, high |-> 0, low |-> 0, volume |-> 0]
NoTrade == [direction |-> "none", offset |-> "none", price |-> 0, volume |-> 0]

\* the history record of a callback, before what it did is filled in
Quiet(op) == [op |-> op, pos0 |-> pos, path |-> "none", exit |-> "none",
              sent |-> <<>>, bar |-> NoBar, volume_ma |-> 0, trade |-> NoTrade,
              held |-> 0, stop0 |-> 0, tick |-> last_tick]

----------------------------------------------------------------------------
(* BtcTripleSignalStrategy1h: the pure parts *)

\* atr_value * atr_multiplier
atr_offset(atr) == (atr * atr_multiplier_num) \div atr_multiplier_den

\* ma_trend_of with equal averages taken for an up trend
ma_trend_of_flat_is_up(fast, slow) ==
    IF fast >= slow THEN 1 ELSE -1

\* calculate_indicators: the trend sign of the two moving averages
ma_trend_of(fast, slow) ==
    IF fast > slow THEN 1 ELSE IF fast < slow THEN -1 ELSE 0

\* calculate_indicators: the latched stochastic cross flag
stoch_cross(lk, ld, k, d, cross) ==
    IF lk < ld /\ k > d THEN TRUE
    ELSE IF lk > ld /\ k < d THEN FALSE
    ELSE cross

\* calculate_indicators: the strategy's indicator fields after the bar, from the
\* values snap the ArrayManager returns
calculate_indicators(snap) ==
    [fast |-> snap.fast, slow |-> snap.slow,
     trend |-> ma_trend_of(snap.fast, snap.slow),
     rsi |-> snap.rsi, hist |-> snap.hist,
     last_k |-> k_value, last_d |-> d_value, k |-> snap.k, d |-> snap.d,
     cross |-> stoch_cross(k_value, d_value, snap.k, snap.d, stoch_cross_over),
     atr |-> snap.atr, adx |-> snap.adx]

\* buy_price taking the bid side of the quote
buy_price_from_bid(tick, lastp) ==
    IF ~tick.has THEN lastp * slippage_pct_den
    ELSE tick.bid * (slippage_pct_den + slippage_pct_num)

\* sell_price applying the slippage tolerance to last_price when there is no
\* quote
sell_price_slipped_last(tick, lastp) ==
    IF ~tick.has THEN lastp * (slippage_pct_den - slippage_pct_num)
    ELSE tick.bid * (slippage_pct_den - slippage_pct_num)

\* the limit price of a buy-side order, in 1/slippage_pct_den
buy_price(tick, lastp) ==
    IF ~tick.has THEN lastp * slippage_pct_den
    ELSE tick.ask * (slippage_pct_den + slippage_pct_num)

\* the limit price of a sell-side order, in 1/slippage_pct_den
sell_price(tick, lastp) ==
    IF ~tick.has THEN lastp * slippage_pct_den
    ELSE tick.bid * (slippage_pct_den - slippage_pct_num)

controlled_buy(volume, lastp) ==
    [kind |-> "buy", volume |-> volume, price |-> buy_price(last_tick, lastp)]
controlled_sell(volume, lastp) ==
    [kind |-> "sell", volume |-> volume, price |-> sell_price(last_tick, lastp)]
controlled_short(volume, lastp) ==
    [kind |-> "short", volume |-> volume, price |-> sell_price(last_tick, lastp)]
controlled_cover(volume, lastp) ==
    [kind |-> "cover", volume |-> volume, price |-> buy_price(last_tick, lastp)]

\* manage_long_position, lines 469-478: the ratchet
long_stop(close, entry, high, atr, stop) ==
    IF close * activation_pct_den > entry * (activation_pct_den + activation_pct_num)
    THEN LET new_stop_price == high - atr_offset(atr)
         IN  IF new_stop_price > stop THEN new_stop_price ELSE stop
    ELSE stop

\* manage_short_position, lines 508-517: the ratchet
short_stop(close, entry, low, atr, stop) ==
    IF close * activation_pct_den < entry * (activation_pct_den - activation_pct_num)
    THEN LET new_stop_price == low + atr_offset(atr)
         IN  IF stop = 0 \/ new_stop_price < stop THEN new_stop_price ELSE stop
    ELSE stop

\* long_exit with the take-profit test moved in front of the stop-loss test
long_exit_tp_first(close, stop, rsi, count, trend) ==
    IF rsi >= rsi_sell_level THEN "tp"
    ELSE IF close <= stop THEN "stop"
    ELSE IF count >= signal_num /\ trend = -1 THEN "reversal"
    ELSE "none"

\* manage_long_position, lines 480-499: the exit taken, first match wins
long_exit(close, stop, rsi, count, trend) ==
    IF close <= stop THEN "stop"
    ELSE IF rsi >= rsi_sell_level THEN "tp"
    ELSE IF count >= signal_num /\ trend = -1 THEN "reversal"
    ELSE "none"

\* manage_short_position, lines 519-538
short_exit(close, stop, rsi, count, trend) ==
    IF close >= stop THEN "stop"
    ELSE IF rsi <= rsi_buy_level THEN "tp"
    ELSE IF count >= signal_num /\ trend = 1 THEN "reversal"
    ELSE "none"

rsi_signal_of(rsi) ==
    IF rsi <= rsi_buy_level THEN 1 ELSE IF rsi >= rsi_sell_level THEN -1 ELSE 0
macd_signal_of(hist) ==
    IF hist > 0 THEN 1 ELSE IF hist < 0 THEN -1 ELSE 0
kdj_signal_of(cross, k, d) ==
    IF cross THEN 1 ELSE IF ~cross /\ k > 80 /\ d > 80 THEN -1 ELSE 0

Count(b) == IF b THEN 1 ELSE 0
long_signals_of(ind) ==
    Count(rsi_signal_of(ind.rsi) = 1) + Count(macd_signal_of(ind.hist) = 1)
        + Count(kdj_signal_of(ind.cross, ind.k, ind.d) = 1)
short_signals_of(ind) ==
    Count(rsi_signal_of(ind.rsi) = -1) + Count(macd_signal_of(ind.hist) = -1)
        + Count(kdj_signal_of(ind.cross, ind.k, ind.d) = -1)

volume_check_passed(volume, volume_ma) ==
    volume * volume_multiplier_den > volume_ma * volume_multiplier_num

\* entry_path without the first layer (the ADX test)
entry_path_no_adx(ind, volume, volume_ma) ==
    IF ind.trend = 0 THEN "ma"
    ELSE IF ~volume_check_passed(volume, volume_ma) THEN "volume"
    ELSE IF ind.trend = 1
         THEN IF long_signals_of(ind) >= signal_num THEN "long" ELSE "count"
         ELSE IF short_signals_of(ind) >= signal_num THEN "short" ELSE "count"

\* entry_path counting every sub-signal that fired, whichever way it points
entry_path_any_direction(ind, volume, volume_ma) ==
    IF ind.adx < adx_threshold THEN "adx"
    ELSE IF ind.trend = 0 THEN "ma"
    ELSE IF ~volume_check_passed(volume, volume_ma) THEN "volume"
    ELSE IF long_signals_of(ind) + short_signals_of(ind) < signal_num THEN "count"
    ELSE IF ind.trend = 1 THEN "long" ELSE "short"

\* entry_path that never decides a short entry
entry_path_long_only(ind, volume, volume_ma) ==
    IF ind.adx < adx_threshold THEN "adx"
    ELSE IF ind.trend = 0 THEN "ma"
    ELSE IF ~volume_check_passed(volume, volume_ma) THEN "volume"
    ELSE IF ind.trend = 1
         THEN IF long_signals_of(ind) >= signal_num THEN "long" ELSE "count"
         ELSE "count"

\* generate_signals, lines 557-617: where the layered entry filter ends for a
\* flat position: the layer that rejects the bar, or the entry it decides
entry_path(ind, volume, volume_ma) ==
    IF ind.adx < adx_threshold THEN "adx"
    ELSE IF ind.trend = 0 THEN "ma"
    ELSE IF ~volume_check_passed(volume, volume_ma) THEN "volume"
    ELSE IF ind.trend = 1
         THEN IF long_signals_of(ind) >= signal_num THEN "long" ELSE "count"
         ELSE IF short_signals_of(ind) >= signal_num THEN "short" ELSE "count"

----------------------------------------------------------------------------
(* BtcTripleSignalStrategy1h: the callbacks *)

\* manage_long_position testing the exits against the stop the bar began with
manage_long_position_stale_stop(bar, ind, high) ==
    LET stop1 == long_stop(bar.close, entry_price, high, ind.atr, trailing_stop_price)
        reason == long_exit(bar.close, trailing_stop_price, ind.rsi, signal_count,
                            ind.trend)
    IN  [stop |-> stop1, exit |-> reason,
         sent |-> IF reason = "none" THEN <<>>
                  ELSE <<controlled_sell(Abs(pos), bar.close)>>]

\* manage_short_position closing fixed_size instead of the whole position
manage_short_position_fixed(bar, ind, low) ==
    LET stop1 == short_stop(bar.close, entry_price, low, ind.atr, trailing_stop_price)
        reason == short_exit(bar.close, stop1, ind.rsi, signal_count, ind.trend)
    IN  [stop |-> stop1, exit |-> reason,
         sent |-> IF reason = "none" THEN <<>>
                  ELSE <<controlled_cover(fixed_size, bar.close)>>]

\* manage_long_position: the stop after the ratchet, the exit reason and the
\* closing order it sends
manage_long_position(bar, ind, high) ==
    LET stop1 == long_stop(bar.close, entry_price, high, ind.atr, trailing_stop_price)
        reason == long_exit(bar.close, stop1, ind.rsi, signal_count, ind.trend)
    IN  [stop |-> stop1, exit |-> reason,
         sent |-> IF reason = "none" THEN <<>>
                  ELSE <<controlled_sell(Abs(pos), bar.close)>>]

manage_short_position(bar, ind, low) ==
    LET stop1 == short_stop(bar.close, entry_price, low, ind.atr, trailing_stop_price)
        reason == short_exit(bar.close, stop1, ind.rsi, signal_count, ind.trend)
    IN  [stop |-> stop1, exit |-> reason,
         sent |-> IF reason = "none" THEN <<>>
                  ELSE <<controlled_cover(Abs(pos), bar.close)>>]

\* generate_signals without the return after position management: a managed
\* bar that sends no exit goes on into the entry filter
generate_signals_falls_through(bar, ind, volume_ma, high, low) ==
    LET keep == [entry |-> entry_price, high |-> high, low |-> low,
                 stop |-> trailing_stop_price, sent |-> <<>>,
                 path |-> "manage", exit |-> "none"]
        m == IF pos > 0 THEN manage_long_position(bar, ind, high)
             ELSE IF pos < 0 THEN manage_short_position(bar, ind, low)
             ELSE [stop |-> trailing_stop_price, exit |-> "none", sent |-> <<>>]
        path == entry_path(ind, bar.volume, volume_ma)
    IN  IF m.exit # "none"
        THEN [keep EXCEPT !.stop = m.stop, !.exit = m.exit, !.sent = m.sent]
        ELSE IF path = "long"
        THEN [keep EXCEPT !.path = path, !.stop = m.stop,
                          !.sent = <<controlled_buy(fixed_size, bar.close)>>,
                          !.entry = bar.close, !.high = bar.high]
        ELSE IF path = "short"
        THEN [keep EXCEPT !.path = path, !.stop = m.stop,
                          !.sent = <<controlled_short(fixed_size, bar.close)>>,
                          !.entry = bar.close, !.low = bar.low]
        ELSE [keep EXCEPT !.path = path, !.stop = m.stop]

\* generate_signals: position management first, the entry filter only when flat.
\* high and low are the intratrade extremes as on_bar has just updated them.
generate_signals(bar, ind, volume_ma, high, low) ==
    LET keep == [entry |-> entry_price, high |-> high, low |-> low,
                 stop |-> trailing_stop_price, sent |-> <<>>,
                 path |-> "manage", exit |-> "none"]
    IN  IF pos > 0
        THEN LET m == manage_long_position(bar, ind, high)
             IN  [keep EXCEPT !.stop = m.stop, !.exit = m.exit, !.sent = m.sent]
        ELSE IF pos < 0
        THEN LET m == manage_short_position(bar, ind, low)
             IN  [keep EXCEPT !.stop = m.stop, !.exit = m.exit, !.sent = m.sent]
        ELSE LET path == entry_path(ind, bar.volume, volume_ma)
             IN  IF path = "long"
                 THEN [keep EXCEPT !.path = path,
                                   !.sent = <<controlled_buy(fixed_size, bar.close)>>,
                                   !.entry = bar.close, !.high = bar.high]
                 ELSE IF path = "short"
                 THEN [keep EXCEPT !.path = path,
                                   !.sent = <<controlled_short(fixed_size, bar.close)>>,
                                   !.entry = bar.close, !.low = bar.low]
                 ELSE [keep EXCEPT !.path = path]

\* cancel_all: a cancel request goes out for every active order
cancel_all(os) == [i \in 1..Len(os) |-> [os[i] EXCEPT !.cancelling = TRUE]]

\* send_order: the order as the broker holds it
Resting(sent) ==
    [i \in 1..Len(sent) |->
        [kind |-> sent[i].kind, volume |-> sent[i].volume, cancelling |-> FALSE]]

\* the bar-to-bar history: the side held through since the last bar, and the
\* stop that bar ended with
BarHistory(op) ==
    LET held == IF mark.side = Sign(pos) THEN mark.side ELSE 0
    IN  [op EXCEPT !.held = held, !.stop0 = IF held # 0 THEN mark.stop ELSE 0]

\* The broker answers a cancel request (by the cancellation or by the fill that
\* beat it) before the following bar arrives: when a bar arrives, the orders
\* still active are the ones the previous bar sent.
CancelsAnswered == \A i \in 1..Len(orders) : ~orders[i].cancelling

\* an order book holds at most the order of the last bar and the one before it
MaxBook == 2

\* am.inited with the test left out: true from the first bar on
inited_always(count) == TRUE

\* ArrayManager.inited after update_bar: the window is full
inited(count) == count >= am_size

on_bar(bar, snap) ==
    /\ variant = "1h"
    /\ CancelsAnswered
    /\ LET high1 == IF pos > 0 THEN Max(intra_trade_high, bar.high)
                     ELSE intra_trade_high
           low1 == IF pos < 0 THEN Min(intra_trade_low, bar.low)
                    ELSE intra_trade_low
           count1 == IF am_count < am_size THEN am_count + 1 ELSE am_count
       IN  \E ind \in {calculate_indicators(snap)} :
           \E g \in {generate_signals(bar, ind, snap.volume_ma, high1, low1)} :
           /\ am_count' = count1
           /\ last_price' = bar.close
           /\ IF inited(count1)
              THEN /\ fast_ma0' = ind.fast
                   /\ slow_ma0' = ind.slow
                   /\ ma_trend' = ind.trend
                   /\ rsi_value' = ind.rsi
                   /\ macd_value' = ind.hist
                   /\ last_k' = ind.last_k
                   /\ last_d' = ind.last_d
                   /\ k_value' = ind.k
                   /\ d_value' = ind.d
                   /\ stoch_cross_over' = ind.cross
                   /\ atr_value' = ind.atr
                   /\ adx_value' = ind.adx
                   /\ entry_price' = g.entry
                   /\ intra_trade_high' = g.high
                   /\ intra_trade_low' = g.low
                   /\ trailing_stop_price' = g.stop
                   /\ orders' = cancel_all(orders) \o Resting(g.sent)
                   /\ ev' = BarHistory([Quiet("bar") EXCEPT
                                !.path = g.path, !.exit = g.exit, !.sent = g.sent,
                                !.bar = bar, !.volume_ma = snap.volume_ma])
              ELSE /\ intra_trade_high' = high1
                   /\ intra_trade_low' = low1
                   /\ orders' = cancel_all(orders)
                   /\ ev' = BarHistory([Quiet("bar") EXCEPT
                                !.path = "warmup", !.bar = bar])
                   /\ UNCHANGED <<fast_ma0, slow_ma0, ma_trend, rsi_value, macd_value,
                                  last_k, last_d, k_value, d_value, stoch_cross_over,
                                  atr_value, adx_value, entry_price,
                                  trailing_stop_price>>
           /\ mark' = [side |-> Sign(pos),
                       stop |-> IF pos # 0 THEN trailing_stop_price' ELSE 0]
           /\ UNCHANGED <<variant, pos, signal_count, last_tick>>
    /\ UNCHANGED <<trader_vars, downloader_vars>>

\* on_tick: keep the quote (the bar generator is the environment's)
on_tick(tick) ==
    /\ variant = "1h"
    /\ last_tick' = tick
    /\ UNCHANGED <<variant, am_count, pos, entry_price, intra_trade_high,
                   intra_trade_low, trailing_stop_price, last_price, fast_ma0,
                   slow_ma0, ma_trend, rsi_value, macd_value, k_value, d_value,
                   last_k, last_d, stoch_cross_over, atr_value, adx_value,
                   signal_count, orders, ev, mark>>
    /\ UNCHANGED <<trader_vars, downloader_vars>>

\* on_trade whose closing branch leaves the trailing stop as it was
on_trade_keeps_stop(trade) ==
    IF trade.offset = "open"
    THEN IF trade.direction = "long"
         THEN [entry |-> trade.price, high |-> trade.price, low |-> intra_trade_low,
               stop |-> trade.price - atr_offset(atr_value)]
         ELSE [entry |-> trade.price, high |-> intra_trade_high, low |-> trade.price,
               stop |-> trade.price + atr_offset(atr_value)]
    ELSE [entry |-> 0, high |-> 0, low |-> 0, stop |-> trailing_stop_price]

\* on_trade with the initial stop of a long entry on the wrong side of the price
on_trade_stop_above(trade) ==
    IF trade.offset = "open"
    THEN IF trade.direction = "long"
         THEN [entry |-> trade.price, high |-> trade.price, low |-> intra_trade_low,
               stop |-> trade.price + atr_offset(atr_value)]
         ELSE [entry |-> trade.price, high |-> intra_trade_high, low |-> trade.price,
               stop |-> trade.price + atr_offset(atr_value)]
    ELSE [entry |-> 0, high |-> 0, low |-> 0, stop |-> 0]

\* on_trade: the four position fields after a fill
on_trade(trade) ==
    IF trade.offset = "open"
    THEN IF trade.direction = "long"
         THEN [entry |-> trade.price, high |-> trade.price, low |-> intra_trade_low,
               stop |-> trade.price - atr_offset(atr_value)]
         ELSE [entry |-> trade.price, high |-> intra_trade_high, low |-> trade.price,
               stop |-> trade.price + atr_offset(atr_value)]
    ELSE [entry |-> 0, high |-> 0, low |-> 0, stop |-> 0]

Remove(os, i) == [j \in 1..(Len(os) - 1) |-> IF j < i THEN os[j] ELSE os[j + 1]]

\* the trade the broker reports when it fills order o at price
TradeOf(o, price) ==
    [direction |-> IF o.kind \in {"buy", "cover"} THEN "long" ELSE "short",
     offset |-> IF o.kind \in {"buy", "short"} THEN "open" ELSE "close",
     price |-> price, volume |-> o.volume]

\* The broker fills active order i in whole at price, whether or not its
\* cancellation has been requested; the framework applies the fill to pos and
\* then calls on_trade.
Fill(i, price) ==
    /\ variant = "1h"
    /\ i \in 1..Len(orders)
    /\ \E trade \in {TradeOf(orders[i], price)} :
       \E t \in {on_trade(trade)} :
           /\ Abs(IF trade.direction = "long" THEN pos + trade.volume
                  ELSE pos - trade.volume) <= MaxPos
           /\ pos' = IF trade.direction = "long" THEN pos + trade.volume
                      ELSE pos - trade.volume
           /\ entry_price' = t.entry
           /\ intra_trade_high' = t.high
           /\ intra_trade_low' = t.low
           /\ trailing_stop_price' = t.stop
           /\ ev' = [Quiet("trade") EXCEPT !.trade = trade]
    /\ orders' = Remove(orders, i)
    /\ mark' = IF Sign(pos') = mark.side THEN mark ELSE [side |-> 0, stop |-> 0]
    /\ UNCHANGED <<variant, am_count, last_price, fast_ma0, slow_ma0, ma_trend,
                   rsi_value, macd_value, k_value, d_value, last_k, last_d,
                   stoch_cross_over, atr_value, adx_value, signal_count, last_tick>>
    /\ UNCHANGED <<trader_vars, downloader_vars>>

\* on_order with status CANCELLED: the broker confirms the cancellation of order
\* i; the strategy only logs it.
CancelConfirm(i) ==
    /\ i \in 1..Len(orders)
    /\ orders[i].cancelling
    /\ orders' = Remove(orders, i)
    /\ UNCHANGED <<variant, am_count, pos, entry_price, intra_trade_high,
                   intra_trade_low, trailing_stop_price, last_price, fast_ma0,
                   slow_ma0, ma_trend, rsi_value, macd_value, k_value, d_value,
                   last_k, last_d, stoch_cross_over, atr_value, adx_value,
                   signal_count, last_tick, ev, mark>>
    /\ UNCHANGED <<trader_vars, downloader_vars>>

----------------------------------------------------------------------------
(* BtcTripleSignalStrategyMin.  Its rsi levels and fixed_size equal those of  *)
(* the 1h class; it has no ATR, ADX, trailing stop or quote, and those fields *)
(* stay as constructed.                                                      *)

min_signal_num == 1
\* stop_loss_pct = 0.05 = 5 / 100
stop_loss_pct_num == 5
stop_loss_pct_den == 100

\* calculate_indicators: every block runs under its own try / except.  am.stoch
\* is called with three arguments; snap.stoch_ok says whether the installed
\* ArrayManager accepts the call or raises, and a raise leaves the stochastic
\* fields as they were.
min_calculate_indicators(snap) ==
    [fast |-> snap.fast, slow |-> snap.slow,
     trend |-> ma_trend_of(snap.fast, snap.slow),
     rsi |-> snap.rsi, hist |-> snap.hist,
     last_k |-> IF snap.stoch_ok THEN k_value ELSE last_k,
     last_d |-> IF snap.stoch_ok THEN d_value ELSE last_d,
     k |-> IF snap.stoch_ok THEN snap.k ELSE k_value,
     d |-> IF snap.stoch_ok THEN snap.d ELSE d_value,
     cross |-> IF snap.stoch_ok
               THEN stoch_cross(k_value, d_value, snap.k, snap.d, stoch_cross_over)
               ELSE stoch_cross_over]

min_kdj_signal_of(cross, k) ==
    IF cross THEN 1 ELSE IF ~cross /\ k > 80 THEN -1 ELSE 0

\* rsi_signal + kdj_signal + macd_signal
min_signal_sum(ind) ==
    rsi_signal_of(ind.rsi) + min_kdj_signal_of(ind.cross, ind.k)
        + macd_signal_of(ind.hist)

\* signal_count: the sub-signals that fired, whichever way they point
min_signal_count(ind) ==
    Count(rsi_signal_of(ind.rsi) # 0) + Count(macd_signal_of(ind.hist) # 0)
        + Count(min_kdj_signal_of(ind.cross, ind.k) # 0)

\* min_long_exit with the take-profit tested ahead of the stop-loss
min_long_exit_tp_first(close, entry, rsi, sum) ==
    IF rsi >= rsi_sell_level THEN "tp"
    ELSE IF close * stop_loss_pct_den <= entry * (stop_loss_pct_den - stop_loss_pct_num)
    THEN "stop"
    ELSE IF sum <= -min_signal_num THEN "reversal"
    ELSE "none"

\* generate_signals, lines 434-448: the exit taken for a long position
min_long_exit(close, entry, rsi, sum) ==
    IF close * stop_loss_pct_den <= entry * (stop_loss_pct_den - stop_loss_pct_num)
    THEN "stop"
    ELSE IF rsi >= rsi_sell_level THEN "tp"
    ELSE IF sum <= -min_signal_num THEN "reversal"
    ELSE "none"

\* generate_signals, lines 456-470: the exit taken for a short position
min_short_exit(close, entry, rsi, sum) ==
    IF close * stop_loss_pct_den >= entry * (stop_loss_pct_den + stop_loss_pct_num)
    THEN "stop"
    ELSE IF rsi <= rsi_buy_level THEN "tp"
    ELSE IF sum >= min_signal_num THEN "reversal"
    ELSE "none"

\* buy / sell / short / cover at price: the order, its price in 1/slippage_pct_den
min_order(kind, price, volume) ==
    [kind |-> kind, volume |-> volume, price |-> price * slippage_pct_den]

min_generate_signals(bar, ind) ==
    LET sum == min_signal_sum(ind)
        keep == [entry |-> entry_price, high |-> intra_trade_high,
                 low |-> intra_trade_low, sent |-> <<>>, path |-> "manage",
                 exit |-> "none", count |-> min_signal_count(ind)]
        extremes == [keep EXCEPT !.high = Max(intra_trade_high, bar.high),
                                 !.low = Min(intra_trade_low, bar.low)]
    IN  IF pos = 0
        THEN IF sum >= min_signal_num
             THEN [keep EXCEPT !.path = "long",
                               !.sent = <<min_order("buy", bar.close, fixed_size)>>,
                               !.entry = bar.close, !.high = bar.close,
                               !.low = bar.close]
             ELSE IF sum <= -min_signal_num
             THEN [keep EXCEPT !.path = "short",
                               !.sent = <<min_order("short", bar.close, fixed_size)>>,
                               !.entry = bar.close, !.high = bar.close,
                               !.low = bar.close]
             ELSE [keep EXCEPT !.path = "count"]
        ELSE IF pos > 0
        THEN LET reason == min_long_exit(bar.close, entry_price, ind.rsi, sum)
             IN  [extremes EXCEPT
                     !.exit = reason,
                     !.sent = IF reason = "none" THEN <<>>
                              ELSE <<min_order("sell", bar.close, Abs(pos))>>]
        ELSE LET reason == min_short_exit(bar.close, entry_price, ind.rsi, sum)
             IN  [extremes EXCEPT
                     !.exit = reason,
                     !.sent = IF reason = "none" THEN <<>>
                              ELSE <<min_order("cover", bar.close, Abs(pos))>>]

\* on_bar of the minute strategy.  It cancels nothing, so an order rests until
\* it is filled; a bar arrives while the book has room for one more order.
min_on_bar(bar, snap) ==
    /\ variant = "min"
    /\ Len(orders) < MaxBook
    /\ LET count1 == IF am_count < am_size THEN am_count + 1 ELSE am_count
       IN  \E ind \in {min_calculate_indicators(snap)} :
           \E g \in {min_generate_signals(bar, ind)} :
           /\ am_count' = count1
           /\ last_price' = bar.close
           /\ IF inited(count1)
              THEN /\ fast_ma0' = ind.fast
                   /\ slow_ma0' = ind.slow
                   /\ ma_trend' = ind.trend
                   /\ rsi_value' = ind.rsi
                   /\ macd_value' = ind.hist
                   /\ last_k' = ind.last_k
                   /\ last_d' = ind.last_d
                   /\ k_value' = ind.k
                   /\ d_value' = ind.d
                   /\ stoch_cross_over' = ind.cross
                   /\ signal_count' = g.count
                   /\ entry_price' = g.entry
                   /\ intra_trade_high' = g.high
                   /\ intra_trade_low' = g.low
                   /\ orders' = orders \o Resting(g.sent)
                   /\ ev' = [Quiet("bar") EXCEPT
                                !.path = g.path, !.exit = g.exit, !.sent = g.sent,
                                !.bar = bar]
              ELSE /\ ev' = [Quiet("bar") EXCEPT !.path = "warmup", !.bar = bar]
                   /\ UNCHANGED <<fast_ma0, slow_ma0, ma_trend, rsi_value, macd_value,
                                  last_k, last_d, k_value, d_value, stoch_cross_over,
                                  signal_count, entry_price, intra_trade_high,
                                  intra_trade_low, orders>>
    /\ UNCHANGED <<variant, pos, trailing_stop_price, atr_value, adx_value,
                   last_tick, mark>>
    /\ UNCHANGED <<trader_vars, downloader_vars>>

\* on_trade of the minute strategy: p is pos as the framework left it after
\* applying the fill; on_trade applies the fill to it again
min_on_trade(trade, p) ==
    LET pos1 == IF trade.direction = "long" THEN p + trade.volume
                ELSE p - trade.volume
    IN  [pos |-> pos1,
         entry |-> IF Abs(pos1) = trade.volume THEN trade.price ELSE entry_price]

\* The broker fills active order i in whole at price; the framework applies the
\* fill to pos and then calls on_trade.
MinFill(i, price) ==
    /\ variant = "min"
    /\ i \in 1..Len(orders)
    /\ \E trade \in {TradeOf(orders[i], price)} :
       \E t \in {min_on_trade(trade, IF trade.direction = "long"
                                     THEN pos + trade.volume
                                     ELSE pos - trade.volume)} :
           /\ Abs(t.pos) <= MaxPos
           /\ pos' = t.pos
           /\ entry_price' = t.entry
           /\ ev' = [Quiet("trade") EXCEPT !.trade = trade]
    /\ orders' = Remove(orders, i)
    /\ UNCHANGED <<variant, am_count, intra_trade_high, intra_trade_low,
                   trailing_stop_price, last_price, fast_ma0, slow_ma0, ma_trend,
                   rsi_value, macd_value, k_value, d_value, last_k, last_d,
                   stoch_cross_over, atr_value, adx_value, signal_count, last_tick,
                   mark>>
    /\ UNCHANGED <<trader_vars, downloader_vars>>

----------------------------------------------------------------------------
(* BinanceLiveTrader: quantity and price rounding.  A quantity, a price, a   *)
(* step and a tick are decimal numbers with at most qty_decimals places,     *)
(* kept as integers in units of 1/10^qty_decimals.                           *)

qty_decimals == 6

RECURSIVE Pow10(_)
Pow10(n) == IF n = 0 THEN 1 ELSE 10 * Pow10(n - 1)

\* the zeros a positive integer ends with
RECURSIVE TrailingZeros(_)
TrailingZeros(n) == IF n % 10 = 0 THEN 1 + TrailingZeros(n \div 10) ELSE 0

\* the precision round_quantity and round_price derive from str(step):
\*   - from 0.0001 up str gives the plain form "i.f": the precision is the
\*     length of f, or 0 when the form is "i.0";
\*   - below 0.0001 str gives the exponent form: "de-0n" holds no point and the
\*     precision is 0; "d.de-0n" splits at the point into "d" and "de-0n",
\*     whose length, 5, is the precision.
precision_of(step) ==
    IF step >= Pow10(qty_decimals - 4)
    THEN IF TrailingZeros(step) >= qty_decimals THEN 0
         ELSE qty_decimals - TrailingZeros(step)
    ELSE IF step < 10 \/ step % 10 = 0 THEN 0 ELSE 5

\* quantize_down landing on the grid value strictly below x
quantize_down_strict(x, precision) ==
    LET unit == Pow10(qty_decimals - precision)
    IN  ((x - 1) \div unit) * unit

\* Decimal(str(x)).quantize(Decimal("0." + "0" * precision), ROUND_DOWN)
quantize_down(x, precision) ==
    LET unit == Pow10(qty_decimals - precision)
    IN  (x \div unit) * unit

round_quantity(quantity, step) == quantize_down(quantity, precision_of(step))

round_price(price, tick) == quantize_down(price, precision_of(tick))

NoCall == [op |-> "none", arg |-> 0, ret |-> 0]

\* a call of round_quantity with the result it returns
round_quantity_call(quantity) ==
    /\ variant = "trader"
    /\ call' = [op |-> "round_quantity", arg |-> quantity,
                ret |-> round_quantity(quantity, step_size)]
    /\ UNCHANGED <<variant, am_count, pos, entry_price, intra_trade_high,
                   intra_trade_low, trailing_stop_price, last_price, fast_ma0,
                   slow_ma0, ma_trend, rsi_value, macd_value, k_value, d_value,
                   last_k, last_d, stoch_cross_over, atr_value, adx_value,
                   signal_count, last_tick, orders, ev, mark, step_size, tick_size,
                   min_qty, position, trader_entry_price, submitted>>
    /\ UNCHANGED downloader_vars

\* a call of round_price with the result it returns
round_price_call(price) ==
    /\ variant = "trader"
    /\ call' = [op |-> "round_price", arg |-> price,
                ret |-> round_price(price, tick_size)]
    /\ UNCHANGED <<variant, am_count, pos, entry_price, intra_trade_high,
                   intra_trade_low, trailing_stop_price, last_price, fast_ma0,
                   slow_ma0, ma_trend, rsi_value, macd_value, k_value, d_value,
                   last_k, last_d, stoch_cross_over, atr_value, adx_value,
                   signal_count, last_tick, orders, ev, mark, step_size, tick_size,
                   min_qty, position, trader_entry_price, submitted>>
    /\ UNCHANGED downloader_vars

----------------------------------------------------------------------------
(* BinanceLiveTrader: the four order calls.  resp is what the exchange       *)
(* client does with create_order: it raises ("raise"), or returns an order   *)
(* with fills ("fills", at resp.price), with none ("no_fills"; resp.ticker   *)
(* is then what get_current_price returns, 0 when that call fails), or with  *)
(* fills that cannot be read ("bad_fills").                                  *)

\* create_order calls the model lets a trader make
MaxSubmits == 2

\* the call returns None before anything is submitted
Rejected(q) ==
    [ret |-> "None", submits |-> 0, quantity |-> q,
     position |-> position, entry |-> trader_entry_price]

\* buy_market, lines 172-206
buy_market(quantity, resp) ==
    LET q == round_quantity(quantity, step_size)
    IN  IF q < min_qty THEN Rejected(q)
        ELSE IF resp.kind = "raise" THEN [Rejected(q) EXCEPT !.submits = 1]
        ELSE IF resp.kind = "bad_fills"
        THEN [Rejected(q) EXCEPT !.submits = 1, !.position = position + q]
        ELSE [ret |-> "order", submits |-> 1, quantity |-> q,
              position |-> position + q,
              entry |-> IF resp.kind = "fills" THEN resp.price ELSE resp.ticker]

\* sell_market without the test against min_qty
sell_market_unchecked(quantity, resp) ==
    LET q == round_quantity(quantity, step_size)
    IN  IF resp.kind = "raise" THEN [Rejected(q) EXCEPT !.submits = 1]
        ELSE [ret |-> "order", submits |-> 1, quantity |-> q,
              position |-> IF position - q <= 0 THEN 0 ELSE position - q,
              entry |-> IF position - q <= 0 THEN 0 ELSE trader_entry_price]

\* sell_market, lines 217-253
sell_market(quantity, resp) ==
    LET q == round_quantity(quantity, step_size)
    IN  IF q < min_qty THEN Rejected(q)
        ELSE IF resp.kind = "raise" THEN [Rejected(q) EXCEPT !.submits = 1]
        ELSE [ret |-> "order", submits |-> 1, quantity |-> q,
              position |-> IF position - q <= 0 THEN 0 ELSE position - q,
              entry |-> IF position - q <= 0 THEN 0 ELSE trader_entry_price]

\* buy_limit that submits a second time when the first submission raises
buy_limit_retries(quantity, price, resp) ==
    LET q == round_quantity(quantity, step_size)
    IN  IF q < min_qty THEN Rejected(q)
        ELSE IF resp.kind = "raise" THEN [Rejected(q) EXCEPT !.submits = 2]
        ELSE [Rejected(q) EXCEPT !.ret = "order", !.submits = 1]

\* buy_limit, lines 265-296, and sell_limit, lines 308-339: the same but for
\* the side of the order; neither touches position or entry_price
buy_limit(quantity, price, resp) ==
    LET q == round_quantity(quantity, step_size)
    IN  IF q < min_qty THEN Rejected(q)
        ELSE IF resp.kind = "raise" THEN [Rejected(q) EXCEPT !.submits = 1]
        ELSE [Rejected(q) EXCEPT !.ret = "order", !.submits = 1]

sell_limit(quantity, price, resp) ==
    LET q == round_quantity(quantity, step_size)
    IN  IF q < min_qty THEN Rejected(q)
        ELSE IF resp.kind = "raise" THEN [Rejected(q) EXCEPT !.submits = 1]
        ELSE [Rejected(q) EXCEPT !.ret = "order", !.submits = 1]

\* the trader after a call that ended as r, and the history of the call
Called(op, quantity, price, resp, r) ==
    /\ variant = "trader"
    /\ submitted < MaxSubmits
    /\ position' = r.position
    /\ trader_entry_price' = r.entry
    /\ submitted' = submitted + r.submits
    /\ call' = [op |-> op, arg |-> quantity, ret |-> r.ret, submits |-> r.submits,
                quantity |-> r.quantity,
                price |-> IF op \in {"buy_limit", "sell_limit"}
                          THEN round_price(price, tick_size) ELSE 0,
                resp |-> resp.kind,
                position0 |-> position, entry0 |-> trader_entry_price]
    /\ UNCHANGED <<step_size, tick_size, min_qty>>
    /\ UNCHANGED <<strategy_vars, downloader_vars>>

buy_market_call(quantity, resp) ==
    \E r \in {buy_market(quantity, resp)} :
        Called("buy_market", quantity, 0, resp, r)

sell_market_call(quantity, resp) ==
    \E r \in {sell_market(quantity, resp)} :
        Called("sell_market", quantity, 0, resp, r)

buy_limit_call(quantity, price, resp) ==
    \E r \in {buy_limit(quantity, price, resp)} :
        Called("buy_limit", quantity, price, resp, r)

sell_limit_call(quantity, price, resp) ==
    \E r \in {sell_limit(quantity, price, resp)} :
        Called("sell_limit", quantity, price, resp, r)

\* get_position, lines 385-393: balance is free + locked of BTC as
\* get_account_balance reports it; 0 stands for no BTC entry, which is also
\* what a failed account request gives (get_account_balance returns {})
get_position(balance) ==
    [ret |-> balance, submits |-> 0, quantity |-> 0,
     position |-> balance, entry |-> trader_entry_price]

get_position_call(balance) ==
    /\ variant = "trader"
    /\ \E r \in {get_position(balance)} :
        /\ position' = r.position
        /\ trader_entry_price' = r.entry
        /\ call' = [op |-> "get_position", arg |-> balance, ret |-> r.ret,
                    submits |-> 0, quantity |-> 0, price |-> 0, resp |-> "balance",
                    position0 |-> position, entry0 |-> trader_entry_price]
    /\ UNCHANGED <<step_size, tick_size, min_qty, submitted>>
    /\ UNCHANGED <<strategy_vars, downloader_vars>>

----------------------------------------------------------------------------
(* vnpy_data_downloader.  Time is counted in clock units of which a bar of the *)
(* interval takes interval_ts; a kline is named by the number k of its bar:    *)
(* it opens at k * interval_ts and closes one unit before the next one opens,  *)
(* as the exchange reports kline[0] and kline[6].  The dates main() uses and   *)
(* the datetimes of the table lie on that grid, where fromtimestamp and        *)
(* timestamp() are inverse to each other.                                      *)

\* clock units per bar (an hour, in milliseconds, in the program)
interval_ts == 2
\* the last bar the exchange has
LastBar == 5
\* start_date and end_date of main(), as bar numbers
StartBar == 1
EndBar == 4
\* the length of a download segment of main() (90 days), in bars
SegmentBars == 2
\* klines per request (1000 in the program)
limit == 2

BarIds == 0..LastBar

open_time(k) == k * interval_ts
close_time(k) == k * interval_ts + interval_ts - 1

NoBatch == [op |-> "none", requests |-> 0, got |-> 0, saved |-> FALSE,
            start0 |-> 0, last_close |-> 0, left |-> FALSE]
NoFound == [min_date |-> 0, max_date |-> 0, count |-> 0]
EmptyTable == [k \in BarIds |-> 0]

\* no downloader runs
NoDownloader ==
    /\ pc = "idle"
    /\ db = EmptyTable
    /\ now_ts = 0
    /\ found = NoFound
    /\ todo = <<>>
    /\ current_start_ts = 0
    /\ end_ts = 0
    /\ dl = NoBatch

\* get_klines: ok says whether the request succeeds; the exchange answers with
\* the klines it has whose open time lies in [start_time, end_time], oldest
\* first, at most limit of them.  A failed request gives the empty list.
get_klines(start_time, end_time, ok) ==
    LET have == {k \in BarIds : /\ open_time(k) <= now_ts
                                /\ open_time(k) >= start_time
                                /\ open_time(k) <= end_time}
    IN  IF ~ok \/ have = {} THEN <<>>
        ELSE LET first == CHOOSE k \in have : \A j \in have : k <= j
                 n == Min(limit, Cardinality(have))
             IN  [i \in 1..n |-> first + i - 1]

\* save_klines_to_db: one INSERT per kline, committed together; saved says
\* whether the database accepts them
save_klines_to_db(table, klines, saved) ==
    IF ~saved THEN table
    ELSE [k \in BarIds |->
            table[k] + Cardinality({i \in 1..Len(klines) : klines[i] = k})]

\* check_existing_data: MIN(datetime), MAX(datetime), COUNT(*) of the rows;
\* checked says whether the query succeeds
check_existing_data(table, checked) ==
    LET rows == {k \in BarIds : table[k] > 0}
    IN  IF ~checked \/ rows = {} THEN NoFound
        ELSE [min_date |-> open_time(CHOOSE k \in rows : \A j \in rows : k <= j),
              max_date |-> open_time(CHOOSE k \in rows : \A j \in rows : k >= j),
              count |-> Cardinality(rows)]

start_date == open_time(StartBar)
end_date == Min(open_time(EndBar), now_ts)

\* main, lines 344-353: the segments of a full download
RECURSIVE segments(_, _)
segments(current_date, last) ==
    IF current_date < last
    THEN LET next_date == Min(current_date + SegmentBars * interval_ts, last)
         IN  <<[start |-> current_date, end |-> next_date]>>
                 \o segments(next_date, last)
    ELSE <<>>

\* main, lines 328-359: the ranges it downloads
ranges(f) ==
    IF f.count > 0
    THEN (IF f.min_date > start_date
          THEN <<[start |-> start_date, end |-> f.min_date]>> ELSE <<>>)
         \o (IF f.max_date < end_date
             THEN <<[start |-> f.max_date, end |-> end_date]>> ELSE <<>>)
    ELSE segments(start_date, end_date)

\* the start of the next request, taken from the open time of the last kline
next_start_open(klines) == open_time(klines[Len(klines)])

\* download_historical_data, line 287: the start of the next request
next_start(klines) == close_time(klines[Len(klines)]) + 1

\* main up to its first download: create_database_and_table, then
\* check_existing_data and the choice of the ranges
main_start(created, checked) ==
    /\ variant = "downloader"
    /\ pc = "main"
    /\ IF ~created
       THEN /\ pc' = "done"
            /\ UNCHANGED <<found, todo>>
       ELSE \E f \in {check_existing_data(db, checked)} :
            /\ found' = f
            /\ todo' = ranges(f)
            /\ pc' = "call"
    /\ UNCHANGED <<db, now_ts, current_start_ts, end_ts, dl>>
    /\ UNCHANGED <<strategy_vars, trader_vars>>

\* main calls download_historical_data for its next range, or has none left
\* and ends; download_historical_data, lines 248-263, up to the loop
download_historical_data ==
    /\ variant = "downloader"
    /\ pc = "call"
    /\ IF todo = <<>>
       THEN /\ pc' = "done"
            /\ UNCHANGED <<todo, current_start_ts, end_ts, dl>>
       ELSE /\ pc' = "loop"
            /\ current_start_ts' = Head(todo).start
            /\ end_ts' = Min(Head(todo).end, now_ts)
            /\ todo' = Tail(todo)
            /\ dl' = NoBatch
    /\ UNCHANGED <<db, now_ts, found>>
    /\ UNCHANGED <<strategy_vars, trader_vars>>

\* one pass through the loop of download_historical_data, lines 265-290
download_batch(ok1, ok2, saved) ==
    /\ variant = "downloader"
    /\ pc = "loop"
    /\ current_start_ts < end_ts
    /\ \E first \in {get_klines(current_start_ts, end_ts, ok1)} :
       \E klines \in {IF first = <<>>
                      THEN get_klines(current_start_ts, end_ts, ok2) ELSE first} :
           IF klines = <<>>
           THEN /\ pc' = "call"
                /\ dl' = [NoBatch EXCEPT !.op = "batch", !.requests = 2,
                                         !.start0 = current_start_ts,
                                         !.left = TRUE]
                /\ UNCHANGED <<db, current_start_ts>>
           ELSE /\ db' = save_klines_to_db(db, klines, saved)
                /\ current_start_ts' = next_start(klines)
                /\ dl' = [op |-> "batch",
                          requests |-> IF first = <<>> THEN 2 ELSE 1,
                          got |-> Len(klines), saved |-> saved,
                          start0 |-> current_start_ts,
                          last_close |-> close_time(klines[Len(klines)]),
                          left |-> FALSE]
                /\ pc' = "loop"
    /\ UNCHANGED <<now_ts, found, todo, end_ts>>
    /\ UNCHANGED <<strategy_vars, trader_vars>>

\* the loop test of line 265 fails: download_historical_data returns
download_return ==
    /\ variant = "downloader"
    /\ pc = "loop"
    /\ ~(current_start_ts < end_ts)
    /\ pc' = "call"
    /\ UNCHANGED <<db, now_ts, found, todo, current_start_ts, end_ts, dl>>
    /\ UNCHANGED <<strategy_vars, trader_vars>>

----------------------------------------------------------------------------
(* The environment *)

Prices == {10, 15}

Ticks == {[has |-> TRUE, bid |-> 10, ask |-> 15]}

BarsOf(volumes) ==
    {b \in [close : Prices, high : Prices, low : Prices, volume : volumes] :
        b.low <= b.close /\ b.close <= b.high}

\* bars and indicator values that exercise the position management
RiskBars == BarsOf({13})
RiskSnaps == [fast : {1, 3}, slow : {2}, rsi : {30, 70}, hist : {1},
              k : {90}, d : {90}, atr : {0, 2}, adx : {20}, volume_ma : {10}]

\* bars and indicator values that exercise the entry filter: one price, every
\* side of every comparison the three layers make
SignalBars == {b \in BarsOf({12, 13}) : b.high = 10}
SignalSnaps == [fast : {1, 2, 3}, slow : {2}, rsi : {30, 50, 70}, hist : {-1, 0, 1},
                k : {80, 90}, d : {85}, atr : {2}, adx : {19, 20}, volume_ma : {10}]

----------------------------------------------------------------------------
(* The state after __init__ *)

InitFields ==
    /\ am_count = 0
    /\ pos = 0
    /\ entry_price = 0
    /\ intra_trade_high = 0
    /\ intra_trade_low = 0
    /\ trailing_stop_price = 0
    /\ last_price = 0
    /\ fast_ma0 = 0
    /\ slow_ma0 = 0
    /\ ma_trend = 0
    /\ rsi_value = 0
    /\ macd_value = 0
    /\ k_value = 0
    /\ d_value = 0
    /\ last_k = 0
    /\ last_d = 0
    /\ stoch_cross_over = FALSE
    /\ atr_value = 0
    /\ adx_value = 0
    /\ signal_count = 0
    /\ last_tick = NoTick
    /\ orders = <<>>
    /\ ev = Quiet("init")
    /\ mark = [side |-> 0, stop |-> 0]

\* no BinanceLiveTrader has been constructed
NoTrader ==
    /\ step_size = 0
    /\ tick_size = 0
    /\ call = NoCall
    /\ min_qty = 0
    /\ position = 0
    /\ trader_entry_price = 0
    /\ submitted = 0

Init ==
    /\ variant = "1h"
    /\ InitFields
    /\ NoTrader
    /\ NoDownloader

Broker ==
    \/ \E i \in 1..MaxBook, price \in Prices : Fill(i, price)
    \/ \E i \in 1..MaxBook : CancelConfirm(i)

Next ==
    \/ \E bar \in RiskBars, snap \in RiskSnaps : on_bar(bar, snap)
    \/ \E tick \in Ticks : on_tick(tick)
    \/ Broker

Spec == Init /\ [][Next]_vars

\* a bar arrives
BarArrives == \E bar \in RiskBars, snap \in RiskSnaps : on_bar(bar, snap)

\* the broker fills some active order
SomeFill == \E i \in 1..MaxBook, price \in Prices : Fill(i, price)

\* Spec with its scheduling: bars keep arriving, the broker reports the outcome
\* of every order (a fill or the confirmation of its cancellation), and orders
\* that keep being placed are filled sooner or later
SpecLive ==
    /\ Spec
    /\ WF_vars(BarArrives)
    /\ WF_vars(Broker)
    /\ SF_vars(SomeFill)

\* A broker with which a cancel request always wins: it fills an order only
\* while no cancellation has been asked for.
OrderlyFill(i, price) ==
    /\ i \in 1..Len(orders)
    /\ ~orders[i].cancelling
    /\ Fill(i, price)

NextSignal ==
    \/ \E bar \in SignalBars, snap \in SignalSnaps : on_bar(bar, snap)
    \/ \E i \in 1..MaxBook, bar \in SignalBars : OrderlyFill(i, bar.close)
    \/ \E i \in 1..MaxBook : CancelConfirm(i)

\* the entry filter under every combination of indicator values
SpecSignal == Init /\ [][NextSignal]_vars

\* bars and indicator values for the minute strategy
MinBars == {b \in BarsOf({13}) : b.high = b.low}
MinSnaps == [fast : {1, 3}, slow : {2}, rsi : {30, 70}, hist : {-1, 1},
             k : {80, 90}, d : {85}, stoch_ok : BOOLEAN]

\* either strategy class may be the one constructed
InitBoth ==
    /\ variant \in {"1h", "min"}
    /\ InitFields
    /\ NoTrader
    /\ NoDownloader

MinBroker == \E i \in 1..MaxBook, price \in Prices : MinFill(i, price)

NextBoth ==
    \/ Next
    \/ \E bar \in MinBars, snap \in MinSnaps : min_on_bar(bar, snap)
    \/ MinBroker

SpecBoth == InitBoth /\ [][NextBoth]_vars

\* steps and ticks an exchange may declare: 0.000001, 0.00001, 0.000015, 0.0001,
\* 0.001, 0.005, 0.01, 0.5, 1 and 10
StepSizes == {1, 10, 15, 100, 1000, 5000, 10000, 500000, 1000000, 10000000}

\* quantities and prices: 0, 0.00005, 0.0001, 0.012, 0.012345, 0.123456, 0.75,
\* 1.5, 15 and 27.123456
Amounts == {0, 50, 100, 12000, 12345, 123456, 750000, 1500000, 15000000, 27123456}

\* BinanceLiveTrader after __init__: _check_system_status has read the filters
\* minQty an exchange may declare: 0.0001 and 0.01
MinQtys == {100, 10000}

\* __init__, lines 72-74: no holding, no entry price, nothing submitted
FreshTrader ==
    /\ position = 0
    /\ trader_entry_price = 0
    /\ submitted = 0
    /\ call = NoCall

InitTrader ==
    /\ variant = "trader"
    /\ InitFields
    /\ step_size \in StepSizes
    /\ tick_size \in StepSizes
    /\ min_qty \in MinQtys
    /\ FreshTrader
    /\ NoDownloader

NextTrader ==
    \/ \E quantity \in Amounts : round_quantity_call(quantity)
    \/ \E price \in Amounts : round_price_call(price)

SpecTrader == InitTrader /\ [][NextTrader]_vars

\* the filters of the order calls: steps 0.00001, 0.0001 and 0.001, tick 0.01
OrderSteps == {10, 100, 1000}
OrderTicks == {10000}

\* quantities asked for: 0.00005, 0.123456 and 1.5; limit prices 15 and 27.123456
OrderAmounts == {50, 123456, 1500000}
LimitPrices == {15000000, 27123456}

\* what the exchange client answers; a fill at 15, the ticker at 10
Responses ==
    {[kind |-> "raise", price |-> 0, ticker |-> 0],
     [kind |-> "fills", price |-> 15000000, ticker |-> 10000000],
     [kind |-> "no_fills", price |-> 0, ticker |-> 10000000],
     [kind |-> "no_fills", price |-> 0, ticker |-> 0],
     [kind |-> "bad_fills", price |-> 0, ticker |-> 10000000]}

\* the BTC balance of the account: none, or one coin
Balances == {0, 1000000}

\* what the exchange client answers to a request that reads nothing back
Answers == {r \in Responses : r.kind \in {"raise", "fills"}}

InitOrders ==
    /\ variant = "trader"
    /\ InitFields
    /\ step_size \in OrderSteps
    /\ tick_size \in OrderTicks
    /\ min_qty \in MinQtys
    /\ FreshTrader
    /\ NoDownloader

NextOrders ==
    \/ \E quantity \in OrderAmounts, resp \in Responses :
          buy_market_call(quantity, resp)
    \/ \E quantity \in OrderAmounts, resp \in Answers :
          sell_market_call(quantity, resp)
    \/ \E quantity \in OrderAmounts, price \in LimitPrices, resp \in Answers :
          buy_limit_call(quantity, price, resp)
    \/ \E quantity \in OrderAmounts, price \in LimitPrices, resp \in Answers :
          sell_limit_call(quantity, price, resp)
    \/ \E balance \in Balances : get_position_call(balance)

SpecOrders == InitOrders /\ [][NextOrders]_vars

\* the table main() finds: empty, or holding one row for each bar of a range
Tables ==
    {EmptyTable} \cup
    {[k \in BarIds |-> IF lo <= k /\ k <= hi THEN 1 ELSE 0] :
        lo \in BarIds, hi \in BarIds}

\* the clock: before end_date, or after the last bar of the exchange
Nows == {open_time(EndBar) - 1, close_time(LastBar)}

InitDownload ==
    /\ variant = "downloader"
    /\ InitFields
    /\ NoTrader
    /\ pc = "main"
    /\ db \in Tables
    /\ now_ts \in Nows
    /\ found = NoFound
    /\ todo = <<>>
    /\ current_start_ts = 0
    /\ end_ts = 0
    /\ dl = NoBatch

NextDownload ==
    \/ \E created \in BOOLEAN, checked \in BOOLEAN : main_start(created, checked)
    \/ download_historical_data
    \/ \E ok1 \in BOOLEAN, ok2 \in BOOLEAN, saved \in BOOLEAN :
          download_batch(ok1, ok2, saved)
    \/ download_return

SpecDownload == InitDownload /\ [][NextDownload]_vars

\* the script runs on: no statement of main() waits for anything but the
\* answer to a request, which get_klines bounds by its timeout
SpecDownloadLive == SpecDownload /\ WF_vars(NextDownload)

----------------------------------------------------------------------------
(* Position and risk state machine of the 1h strategy *)

\* C1: while the position stays Long, the trailing stop at the end of a bar is
\* never below the trailing stop at the end of the bar before it.
LongStopNeverDecreases ==
    (ev.op = "bar" /\ ev.held = 1) => trailing_stop_price >= ev.stop0

\* C2: while the position stays Short, the trailing stop at the end of a bar is
\* never above the trailing stop at the end of the bar before it.
ShortStopNeverIncreases ==
    (ev.op = "bar" /\ ev.held = -1) => trailing_stop_price <= ev.stop0

ClosingKind(p) == IF p > 0 THEN "sell" ELSE "cover"

\* C3: a bar that generate_signals processes with a position open is handled by
\* position management alone: no entry layer runs, and every order the bar
\* sends (the ones not yet asked to be cancelled) closes the position.
PositionManagementFirst ==
    (ev.op = "bar" /\ ev.path # "warmup" /\ ev.pos0 # 0) =>
        /\ ev.path = "manage"
        /\ Len(ev.sent) <= 1
        /\ \A i \in 1..Len(ev.sent) : ev.sent[i].kind = ClosingKind(ev.pos0)
        /\ \A i \in 1..Len(orders) :
              orders[i].cancelling \/ orders[i].kind = ClosingKind(ev.pos0)

\* C3 witness: a bar managed a Long position on which the entry filter would
\* have passed all its layers, and sent the closing order only.
PositionManagementFirstWitness ==
    /\ ev.op = "bar" /\ ev.pos0 > 0 /\ ev.path = "manage"
    /\ adx_value >= adx_threshold /\ ma_trend = 1
    /\ rsi_signal_of(rsi_value) + macd_signal_of(macd_value) >= signal_num
    /\ ev.sent # <<>>

\* C4: stop-loss wins over take-profit, take-profit over signal reversal.
ExitPrecedence ==
    (ev.op = "bar" /\ ev.path = "manage") =>
        IF ev.pos0 > 0
        THEN /\ (ev.bar.close <= trailing_stop_price) <=> (ev.exit = "stop")
             /\ ev.exit = "tp" =>
                    ev.bar.close > trailing_stop_price /\ rsi_value >= rsi_sell_level
             /\ ev.exit = "reversal" =>
                    ev.bar.close > trailing_stop_price /\ rsi_value < rsi_sell_level
        ELSE /\ (ev.bar.close >= trailing_stop_price) <=> (ev.exit = "stop")
             /\ ev.exit = "tp" =>
                    ev.bar.close < trailing_stop_price /\ rsi_value <= rsi_buy_level
             /\ ev.exit = "reversal" =>
                    ev.bar.close < trailing_stop_price /\ rsi_value > rsi_buy_level

\* C4 witness: a Long bar that breaches the stop and has RSI at the sell level
\* exits by stop-loss.
ExitPrecedenceWitness ==
    /\ ev.op = "bar" /\ ev.pos0 > 0
    /\ ev.bar.close <= trailing_stop_price /\ rsi_value >= rsi_sell_level
    /\ ev.exit = "stop"

\* C5: after on_trade has processed a closing fill the four position fields
\* are zero.
FlattenResets ==
    (ev.op = "trade" /\ ev.trade.offset = "close") =>
        /\ entry_price = 0 /\ intra_trade_high = 0
        /\ intra_trade_low = 0 /\ trailing_stop_price = 0

\* C5 witness: a closing fill took a Long position to Flat.
FlattenResetsWitness ==
    /\ ev.op = "trade" /\ ev.trade.offset = "close"
    /\ ev.pos0 > 0 /\ pos = 0 /\ trailing_stop_price = 0

\* C6: while Flat the four position fields are zero.
FlatFieldsZero ==
    pos = 0 =>
        /\ entry_price = 0 /\ intra_trade_high = 0
        /\ intra_trade_low = 0 /\ trailing_stop_price = 0

----------------------------------------------------------------------------
(* Signal filter pipeline of the 1h strategy *)

\* an order the bar sent that opens a position
Opens(kind) == \E i \in 1..Len(ev.sent) : ev.sent[i].kind = kind
NothingSent == ev.sent = <<>> /\ \A i \in 1..Len(orders) : orders[i].cancelling
FlatBar == ev.op = "bar" /\ ev.path # "warmup" /\ ev.pos0 = 0

\* the oscillator sub-signals of the last bar, as the strategy holds them
BuySignals ==
    Count(rsi_value <= rsi_buy_level) + Count(macd_value > 0)
        + Count(stoch_cross_over)
SellSignals ==
    Count(rsi_value >= rsi_sell_level) + Count(macd_value < 0)
        + Count(~stoch_cross_over /\ k_value > 80 /\ d_value > 80)
VolumeConfirmed ==
    ev.bar.volume * volume_multiplier_den > ev.volume_ma * volume_multiplier_num

\* C8: a bar processed while Flat with ADX below the threshold sends no order.
AdxGate ==
    (FlatBar /\ adx_value < adx_threshold) => NothingSent

\* C8 witness: ADX below the threshold on a bar whose trend, sub-signals and
\* volume would all have let a long entry through.
AdxGateWitness ==
    /\ FlatBar /\ adx_value < adx_threshold
    /\ ma_trend = 1 /\ BuySignals >= signal_num /\ VolumeConfirmed
    /\ NothingSent

\* C9: ma_trend is the sign of fast SMA - slow SMA; a flat bar with trend 0
\* sends nothing, a buy needs trend 1 and a short needs trend -1.
DirectionGate ==
    /\ (ma_trend = 1) <=> (fast_ma0 > slow_ma0)
    /\ (ma_trend = -1) <=> (fast_ma0 < slow_ma0)
    /\ (ma_trend = 0) <=> (fast_ma0 = slow_ma0)
    /\ FlatBar =>
          /\ ma_trend = 0 => NothingSent
          /\ Opens("buy") => ma_trend = 1
          /\ Opens("short") => ma_trend = -1

\* C9 witness: equal averages on a flat bar with ADX, sub-signals and volume
\* all in favour of an entry, and nothing sent.
DirectionGateWitness ==
    /\ FlatBar /\ fast_ma0 = slow_ma0 /\ ma_trend = 0
    /\ adx_value >= adx_threshold /\ BuySignals >= signal_num /\ VolumeConfirmed
    /\ NothingSent

\* C10: an entry is sent only when at least signal_num sub-signals agree with
\* the trend direction and the volume is above volume_ma * volume_multiplier.
TimingGate ==
    FlatBar =>
        /\ Opens("buy") => BuySignals >= signal_num /\ VolumeConfirmed
        /\ Opens("short") => SellSignals >= signal_num /\ VolumeConfirmed

\* C10 witness: a long entry on exactly signal_num agreeing sub-signals while
\* the third one points the other way.
TimingGateWitness ==
    /\ FlatBar /\ Opens("buy")
    /\ BuySignals = signal_num /\ SellSignals = 1

\* the one order the bar sent, of the given kind and one fixed_size lot
SentExactly(kind) ==
    /\ Len(ev.sent) = 1
    /\ ev.sent[1].kind = kind
    /\ ev.sent[1].volume = fixed_size
    /\ \E i \in 1..Len(orders) :
          /\ ~orders[i].cancelling
          /\ orders[i].kind = kind /\ orders[i].volume = fixed_size
    /\ \A i, j \in 1..Len(orders) :
          (~orders[i].cancelling /\ ~orders[j].cancelling) => i = j

\* C11: a bar processed while Flat on which all three layers pass sends
\* exactly one opening order of fixed_size, a buy when ma_trend is 1 and a
\* short when it is -1.
EntryOnAllLayers ==
    (FlatBar /\ adx_value >= adx_threshold /\ VolumeConfirmed) =>
        /\ (ma_trend = 1 /\ BuySignals >= signal_num) => SentExactly("buy")
        /\ (ma_trend = -1 /\ SellSignals >= signal_num) => SentExactly("short")

\* C11 witness: a down-trend bar that passes every layer and sends the short.
EntryOnAllLayersWitness ==
    /\ FlatBar /\ adx_value >= adx_threshold /\ VolumeConfirmed
    /\ ma_trend = -1 /\ SellSignals >= signal_num
    /\ SentExactly("short")

\* C12: the stochastic buy sub-signal is up only on the bar of the golden
\* cross itself: previous %K below previous %D and current %K above current %D.
GoldenCrossOnCrossingBarOnly ==
    (variant = "1h" /\ stoch_cross_over) =>
        (last_k < last_d /\ k_value > d_value)

\* C13: the stochastic sell sub-signal is up only on the bar of a dead cross
\* (previous %K above previous %D, current %K below current %D) with both lines
\* above 80.
SellSignalOnDeadCrossOnly ==
    (variant = "1h" /\ ~stoch_cross_over /\ k_value > 80 /\ d_value > 80) =>
        (last_k > last_d /\ k_value < d_value)

----------------------------------------------------------------------------
(* Opening fills and the ratchet of the 1h strategy *)

OpeningFill == variant = "1h" /\ ev.op = "trade" /\ ev.trade.offset = "open"

\* C14: after an opening fill entry_price is the fill price and the trailing
\* stop is the fill price minus (Long) or plus (Short) atr_value *
\* atr_multiplier; 50,000 with ATR 500 gives 48,750.
InitialStopFromAtr ==
    /\ 50000 - atr_offset(500) = 48750
    /\ OpeningFill =>
          /\ entry_price = ev.trade.price
          /\ ev.trade.direction = "long" =>
                 trailing_stop_price * atr_multiplier_den =
                     ev.trade.price * atr_multiplier_den
                         - atr_value * atr_multiplier_num
          /\ ev.trade.direction = "short" =>
                 trailing_stop_price * atr_multiplier_den =
                     ev.trade.price * atr_multiplier_den
                         + atr_value * atr_multiplier_num

\* C14 witness: a long entry filled with a non-zero ATR.
InitialStopFromAtrWitness ==
    /\ OpeningFill /\ ev.trade.direction = "long" /\ ev.pos0 = 0
    /\ atr_value > 0
    /\ trailing_stop_price < entry_price

\* C15: after a fill that opens a position from Flat, entry_price,
\* intra_trade_high and intra_trade_low all equal the fill price.
OpeningFillSetsAllThree ==
    (OpeningFill /\ ev.pos0 = 0) =>
        /\ entry_price = ev.trade.price
        /\ intra_trade_high = ev.trade.price
        /\ intra_trade_low = ev.trade.price

\* the bar step moved the stop of a Long position by the ratchet rule
LongRatchetStep ==
    /\ pos > 0
    /\ ev'.bar.close * activation_pct_den >
           entry_price * (activation_pct_den + activation_pct_num)
    /\ trailing_stop_price' * atr_multiplier_den =
           intra_trade_high' * atr_multiplier_den - atr_value' * atr_multiplier_num
    /\ trailing_stop_price' > trailing_stop_price

\* the bar step moved the stop of a Short position by the ratchet rule
ShortRatchetStep ==
    /\ pos < 0
    /\ ev'.bar.close * activation_pct_den <
           entry_price * (activation_pct_den - activation_pct_num)
    /\ trailing_stop_price' * atr_multiplier_den =
           intra_trade_low' * atr_multiplier_den + atr_value' * atr_multiplier_num
    /\ trailing_stop_price' < trailing_stop_price

\* C16: a bar changes trailing_stop_price only when its close is beyond the
\* activation price and the candidate stop is strictly more favourable than
\* the current one; the new stop is then the candidate.  In every other case
\* the bar leaves the stop as it was.
RatchetOnly ==
    [][(variant = "1h" /\ ev'.op = "bar"
            /\ trailing_stop_price' # trailing_stop_price)
          => (LongRatchetStep \/ ShortRatchetStep)]_vars

\* C17: a Long bar on which the stop is not hit and RSI is below the sell
\* level sends the closing sell when at least signal_num sub-signals of the bar
\* point short and ma_trend is -1; symmetrically a Short bar sends the cover.
ReversalExit ==
    (variant = "1h" /\ ev.op = "bar" /\ ev.path = "manage") =>
        /\ (/\ ev.pos0 > 0
            /\ ev.bar.close > trailing_stop_price
            /\ rsi_value < rsi_sell_level
            /\ SellSignals >= signal_num /\ ma_trend = -1) => Opens("sell")
        /\ (/\ ev.pos0 < 0
            /\ ev.bar.close < trailing_stop_price
            /\ rsi_value > rsi_buy_level
            /\ BuySignals >= signal_num /\ ma_trend = 1) => Opens("cover")

\* the orders the last bar found active and asked to cancel
StaleOrders == {i \in 1..Len(orders) : orders[i].cancelling}

\* C18: a bar sends an entry order only when no earlier order is still
\* waiting for its fill or for the confirmation of its cancellation.
OneOrderInFlight ==
    (variant = "1h" /\ ev.op = "bar" /\ (Opens("buy") \/ Opens("short"))) =>
        StaleOrders = {}

\* C19: when a bar has sent an order, no order sent by an earlier bar is still
\* active at the broker.
NoStaleOrderAtSubmission ==
    (variant = "1h" /\ ev.op = "bar" /\ ev.sent # <<>>) => StaleOrders = {}

----------------------------------------------------------------------------
(* Warm-up of both strategies *)

IndicatorFieldsUntouched ==
    /\ fast_ma0 = 0 /\ slow_ma0 = 0 /\ ma_trend = 0
    /\ rsi_value = 0 /\ macd_value = 0
    /\ k_value = 0 /\ d_value = 0 /\ last_k = 0 /\ last_d = 0
    /\ ~stoch_cross_over
    /\ atr_value = 0 /\ adx_value = 0 /\ signal_count = 0

\* C7: in either strategy, as long as the bars received are fewer than the
\* lookback (the array manager is not initialized), every on_bar ends on the
\* warm-up path having sent nothing and decided nothing: no order is active, no
\* fill has happened, and the indicator, signal and position fields are as
\* constructed.
WarmupSkips ==
    am_count < am_size =>
        /\ orders = <<>>
        /\ pos = 0
        /\ IndicatorFieldsUntouched
        /\ entry_price = 0 /\ intra_trade_high = 0 /\ intra_trade_low = 0
        /\ trailing_stop_price = 0
        /\ ev.op \in {"init", "bar"}
        /\ ev.op = "bar" =>
               ev.path = "warmup" /\ ev.sent = <<>> /\ ev.exit = "none"

\* the longest bar sequence short of the lookback has been processed
WarmupSkipsWitness ==
    /\ variant = "min"
    /\ am_count = am_size - 1
    /\ ev.op = "bar"
    /\ ev.path = "warmup"
    /\ last_price = ev.bar.close

----------------------------------------------------------------------------
(* BinanceLiveTrader: order sizing *)

\* C20: what round_quantity returns is at most the quantity asked for and is
\* a whole number of steps.
RoundsDownToStep ==
    call.op = "round_quantity" =>
        /\ call.ret <= call.arg
        /\ call.ret % step_size = 0

OrderCalls == {"buy_market", "sell_market", "buy_limit", "sell_limit"}

\* C21: with step_size 0.00001 and min_qty 0.0001, buy_market(0.123456) rounds
\* the quantity to 0.12345 and submits the order, and buy_market(0.00005)
\* rounds it to 0 and is rejected.
RoundingExample ==
    (step_size = 10 /\ min_qty = 100 /\ call.op = "buy_market") =>
        /\ call.arg = 123456 => (call.quantity = 123450 /\ call.submits = 1)
        /\ call.arg = 50 =>
               (call.quantity = 0 /\ call.submits = 0 /\ call.ret = "None")

\* C22: rounding what round_quantity or round_price returned gives the same
\* value again.
RoundingIdempotent ==
    /\ call.op = "round_quantity" =>
           round_quantity(call.ret, step_size) = call.ret
    /\ call.op = "round_price" =>
           round_price(call.ret, tick_size) = call.ret

\* C22 witness: a quantity that rounding changed, under a step that is not a
\* power of ten.
RoundingIdempotentWitness ==
    /\ call.op = "round_quantity" /\ step_size = 5000
    /\ 0 < call.ret /\ call.ret < call.arg
    /\ round_quantity(call.ret, step_size) = call.ret

\* C23: an order call whose rounded quantity is below min_qty returns None,
\* submits nothing and leaves position and entry_price as they were.
InvalidQuantityRejected ==
    (call.op \in OrderCalls /\ call.quantity < min_qty) =>
        /\ call.ret = "None"
        /\ call.submits = 0
        /\ position = call.position0
        /\ trader_entry_price = call.entry0

\* C23 witness: with a holding, sell_market is asked for a quantity above
\* min_qty that rounds to one below it.
InvalidQuantityRejectedWitness ==
    /\ call.op = "sell_market"
    /\ call.arg >= min_qty /\ call.quantity < min_qty
    /\ call.position0 > 0 /\ position = call.position0
    /\ call.ret = "None"

\* C26: when create_order raises, the order call returns None after that one
\* submission.
FailureNotRetried ==
    (call.op \in OrderCalls /\ call.quantity >= min_qty /\ call.resp = "raise") =>
        /\ call.ret = "None"
        /\ call.submits = 1

\* C26 witness: create_order raised under buy_limit.
FailureNotRetriedWitness ==
    /\ call.op = "buy_limit" /\ call.resp = "raise"
    /\ call.quantity >= min_qty
    /\ call.ret = "None" /\ submitted = 1

BuySide == {"buy", "cover"}
SellSide == {"sell", "short"}

\* C24: with a quote, an order of controlled_buy or controlled_cover is
\* priced at ask_price_1 * (1 + slippage_tolerance_pct) and an order of
\* controlled_sell or controlled_short at bid_price_1 *
\* (1 - slippage_tolerance_pct).
SlippagePricing ==
    (variant = "1h" /\ ev.op = "bar" /\ ev.tick.has) =>
        \A i \in 1..Len(ev.sent) :
            /\ ev.sent[i].kind \in BuySide =>
                   ev.sent[i].price =
                       ev.tick.ask * (slippage_pct_den + slippage_pct_num)
            /\ ev.sent[i].kind \in SellSide =>
                   ev.sent[i].price =
                       ev.tick.bid * (slippage_pct_den - slippage_pct_num)

\* C24 witness: with a quote, a Short position is covered at the ask plus the
\* tolerance.
SlippagePricingWitness ==
    /\ variant = "1h" /\ ev.op = "bar" /\ ev.tick.has /\ ev.pos0 < 0
    /\ Len(ev.sent) = 1 /\ ev.sent[1].kind = "cover"
    /\ ev.sent[1].price = ev.tick.ask * (slippage_pct_den + slippage_pct_num)
    /\ ev.sent[1].price # ev.bar.close * slippage_pct_den

\* C25: without a quote, a bar that places an order places exactly one, priced
\* at last_price.
NoQuoteFallback ==
    (variant = "1h" /\ ev.op = "bar" /\ ~ev.tick.has
            /\ (ev.exit # "none" \/ ev.path \in {"long", "short"})) =>
        /\ Len(ev.sent) = 1
        /\ ev.sent[1].price = last_price * slippage_pct_den
        /\ last_price = ev.bar.close

\* C25 witness: without a quote, a Long position is closed by one sell at
\* last_price.
NoQuoteFallbackWitness ==
    /\ variant = "1h" /\ ev.op = "bar" /\ ~ev.tick.has /\ ev.pos0 > 0
    /\ Len(ev.sent) = 1 /\ ev.sent[1].kind = "sell"
    /\ ev.sent[1].price = last_price * slippage_pct_den

\* a fill that does not fit the position it arrives in: an opening fill while
\* a position is held, a closing sell without a Long position, a closing
\* cover without a Short position
InconsistentFill ==
    /\ ev.op = "trade"
    /\ \/ ev.trade.offset = "open" /\ ev.pos0 # 0
       \/ ev.trade.offset = "close" /\ ev.trade.direction = "short" /\ ev.pos0 <= 0
       \/ ev.trade.offset = "close" /\ ev.trade.direction = "long" /\ ev.pos0 >= 0

\* C27: on_trade ends in an error outcome when the fill does not fit the
\* position state; it does not process the fill as a regular one.
InconsistentFillFlagged ==
    (variant = "1h" /\ InconsistentFill) => ev.exit = "error"

\* C28: on a bar in position the intratrade extreme takes the bar in first, the
\* stop is then ratcheted against the candidate of that extreme, and the
\* stop-loss test compares the close with the stop as this bar has left it.
PerBarOrdering ==
    (variant = "1h" /\ ev.op = "bar" /\ ev.path = "manage") =>
        IF ev.pos0 > 0
        THEN /\ intra_trade_high >= ev.bar.high
             /\ ev.bar.close * activation_pct_den >
                     entry_price * (activation_pct_den + activation_pct_num)
                 => trailing_stop_price * atr_multiplier_den >=
                        intra_trade_high * atr_multiplier_den
                            - atr_value * atr_multiplier_num
             /\ (ev.exit = "stop") <=> (ev.bar.close <= trailing_stop_price)
        ELSE /\ intra_trade_low <= ev.bar.low
             /\ ev.bar.close * activation_pct_den <
                     entry_price * (activation_pct_den - activation_pct_num)
                 => trailing_stop_price * atr_multiplier_den <=
                        intra_trade_low * atr_multiplier_den
                            + atr_value * atr_multiplier_num
             /\ (ev.exit = "stop") <=> (ev.bar.close >= trailing_stop_price)

\* C28 witness: a Long bar whose high raises the extreme, whose candidate
\* raises the stop from below the close to the close or above, and which exits
\* by stop-loss.
PerBarOrderingWitness ==
    /\ variant = "1h" /\ ev.op = "bar" /\ ev.path = "manage" /\ ev.pos0 > 0
    /\ ev.held = 1 /\ ev.stop0 < ev.bar.close
    /\ intra_trade_high = ev.bar.high
    /\ trailing_stop_price * atr_multiplier_den =
           intra_trade_high * atr_multiplier_den - atr_value * atr_multiplier_num
    /\ ev.bar.close <= trailing_stop_price
    /\ ev.exit = "stop"

\* C29: a bar sends at most one order: in position nothing but one closing
\* order for the whole position, when Flat nothing but one opening order of
\* fixed_size.
OneOrderPerBar ==
    (variant = "1h" /\ ev.op = "bar") =>
        /\ Len(ev.sent) <= 1
        /\ \A i \in 1..Len(ev.sent) :
               IF ev.pos0 # 0
               THEN /\ ev.sent[i].kind = ClosingKind(ev.pos0)
                    /\ ev.sent[i].volume = Abs(ev.pos0)
               ELSE /\ ev.sent[i].kind \in {"buy", "short"}
                    /\ ev.sent[i].volume = fixed_size

\* C29 witness: a Short position of two lots is closed by one cover of two.
OneOrderPerBarWitness ==
    /\ variant = "1h" /\ ev.op = "bar" /\ ev.pos0 = -2
    /\ Len(ev.sent) = 1
    /\ ev.sent[1].kind = "cover" /\ ev.sent[1].volume = 2

\* the raw sum of the three sub-signals of the last bar of the minute strategy
MinRawSum ==
    rsi_signal_of(rsi_value) + macd_signal_of(macd_value)
        + min_kdj_signal_of(stoch_cross_over, k_value)

MinLongStopHit ==
    ev.bar.close * stop_loss_pct_den <=
        entry_price * (stop_loss_pct_den - stop_loss_pct_num)

MinShortStopHit ==
    ev.bar.close * stop_loss_pct_den >=
        entry_price * (stop_loss_pct_den + stop_loss_pct_num)

MinBuySignals ==
    Count(rsi_signal_of(rsi_value) = 1) + Count(macd_signal_of(macd_value) = 1)
        + Count(min_kdj_signal_of(stoch_cross_over, k_value) = 1)
MinSellSignals ==
    Count(rsi_signal_of(rsi_value) = -1) + Count(macd_signal_of(macd_value) = -1)
        + Count(min_kdj_signal_of(stoch_cross_over, k_value) = -1)

\* C31: the minute strategy sends a long entry only on a bar with at least
\* signal_num buy sub-signals and ma_trend = 1, and a short entry only on a bar
\* with at least signal_num sell sub-signals and ma_trend = -1.
MinEntryNeedsTrend ==
    (variant = "min" /\ ev.op = "bar" /\ ev.pos0 = 0) =>
        /\ Opens("buy") => (MinBuySignals >= min_signal_num /\ ma_trend = 1)
        /\ Opens("short") => (MinSellSignals >= min_signal_num /\ ma_trend = -1)

\* C33: the absolute position of the 1h strategy never exceeds fixed_size.
PositionWithinFixedSize ==
    variant = "1h" => Abs(pos) <= fixed_size

\* C37: after a fill the minute strategy's pos is the position before the fill
\* plus the fill's signed volume, counted once, and a fill that opens a position
\* from Flat sets entry_price to the fill price.
MinFillCountedOnce ==
    (variant = "min" /\ ev.op = "trade") =>
        /\ pos = ev.pos0 + (IF ev.trade.direction = "long" THEN ev.trade.volume
                            ELSE -ev.trade.volume)
        /\ ev.pos0 = 0 => entry_price = ev.trade.price

\* C35: when buy_market or sell_market returns None, position and entry_price
\* are what they were before the call.
MarketNoneLeavesState ==
    (call.op \in {"buy_market", "sell_market"} /\ call.ret = "None") =>
        /\ position = call.position0
        /\ trader_entry_price = call.entry0

\* C36: the trader's position is never negative, and entry_price is 0 whenever
\* position is 0.
PositionEntryConsistent ==
    variant = "trader" =>
        /\ position >= 0
        /\ position = 0 => trader_entry_price = 0

\* a bar in position whose close is at or beyond the trailing stop
StopCrossed ==
    /\ variant = "1h" /\ ev.op = "bar" /\ ev.path = "manage"
    /\ IF ev.pos0 > 0 THEN ev.bar.close <= trailing_stop_price
       ELSE ev.bar.close >= trailing_stop_price

\* C34: once a bar's close has crossed the trailing stop of the open position,
\* the position eventually becomes Flat.
StopCrossedLeadsToFlat == StopCrossed ~> (pos = 0)

\* C32: when main() has found existing rows and has run to its end, no bar is
\* stored twice.
NoBarStoredTwice ==
    (variant = "downloader" /\ pc = "done" /\ found.count > 0) =>
        \A k \in BarIds : db[k] <= 1

\* what a pass through the download loop does
BatchAdvances ==
    (variant = "downloader" /\ dl.op = "batch") =>
        IF dl.got > 0
        THEN /\ ~dl.left
             /\ dl.requests \in {1, 2}
             /\ dl.last_close >= dl.start0
             /\ (pc = "loop" => current_start_ts > dl.last_close)
        ELSE dl.left /\ dl.requests = 2

\* C38: download_historical_data terminates: a pass through its loop moves
\* current_start_ts past the close time of the last kline received, whether
\* or not the save succeeded, or leaves the loop after an empty response and
\* one empty retry; main() reaches its end.
DownloadTerminates == []BatchAdvances /\ <>(pc = "done")

\* C38 witness: a batch whose save failed has moved current_start_ts on, after
\* a retry.
DownloadTerminatesWitness ==
    /\ variant = "downloader" /\ pc = "loop" /\ dl.op = "batch"
    /\ dl.got > 0 /\ ~dl.saved /\ dl.requests = 2
    /\ current_start_ts = dl.last_close + 1
    /\ current_start_ts > dl.start0

====
